---- MODULE Spec2Model ----
(***************************************************************************)
(* The draggable slider of FunForks/react-slider: the SliderProvider store *)
(* (contexts/SliderContext) and the Slider component (components/Slider).  *)
(*                                                                         *)
(* Numbers.  The code works in JavaScript numbers.  Every pixel quantity   *)
(* it computes is a multiple of 1/maxValue pixel (left = max*value /       *)
(* maxValue, offset = left - pageX, next = pageX + offset), so `left`,     *)
(* `dragData.left`, `dragData.offset` and `next` are held here exactly, in *)
(* units of 1/maxValue pixel (Px converts whole pixels).  `max`, `value`,  *)
(* `maxValue`, the widths and `pageX` are plain integers.  Rounding error  *)
(* of IEEE doubles is not modelled.  With maxValue = 0 a division by       *)
(* maxValue has no finite quotient: the unit is then the whole pixel, and  *)
(* NaN, Infinity and -Infinity are three numbers outside every range the   *)
(* model reaches, handled by the operators as JavaScript handles them.     *)
(***************************************************************************)
EXTENDS Integers, Sequences, FiniteSets, TLC

VARIABLES
  maxValue,       \* SliderProvider: useState(100)
  value,          \* SliderProvider: useState(50), written by setValue
  left,           \* Slider: useState(0), written by setLeft
  dragData,       \* Slider: useRef({}).current
  sliderWidth,    \* slider.current.clientWidth
  thumbWidth,     \* thumb.current.getBoundingClientRect().width
  mounted,        \* the useEffect(initialize, []) has run
  moveListeners,  \* "mousemove" listeners of document.body, in order
  upListeners,    \* "mouseup" {once: true} listeners of document.body
  closures,       \* number of startDrag calls so far (closure identities)
  removed,        \* history: closure id -> times its drag was removed
  event,          \* history: the last event delivered
  ran,            \* history: listener calls made by the last event
  updates,        \* history: drag() calls of the last event that set state
  runLast,        \* history: last value drag() wrote in the current run
                  \*          of moves with non-decreasing pageX
  runPrev         \* history: the value written in that run before runLast

vars == <<maxValue, value, left, dragData, sliderWidth, thumbWidth, mounted,
          moveListeners, upListeners, closures, removed, event, ran,
          updates, runLast, runPrev>>

----------------------------------------------------------------------------
(* Bounds of the model *)

MaxDown == 2          \* pointer-down events in one behaviour
MaxPageX == 3         \* dense pointer coordinates 0..MaxPageX
MaxPageK == 5         \* sparse pointer coordinates PageStep * (0..MaxPageK)
MaxMaxValue == 3      \* generic store: maxValue in 1..MaxMaxValue
MaxTravel == 3        \* generic geometry: track - thumb in -1..MaxTravel
PageStep == 72        \* spacing of the sparse pointer coordinates
MaxExcess == 1        \* foreign store writes reach this far out of range

(* Program constants *)

DefaultMaxValue == 100
DefaultValue == 50
SliderStyleWidth == 320
ThumbSizeRem == 2

GenSliderWidth == 5
RootFontSizes == {16, 160, 176}

\* pointer coordinates on a page that ends PageStep pixels after a track
\* of width w
PageXs(w) ==
  { x \in (0 .. MaxPageX) \cup { PageStep * k : k \in 0 .. MaxPageK } :
      x <= w + PageStep }

NoValue == 0 - 1
NaN == -1000000
Infinity == 1000000
NegInfinity == 0 - Infinity

----------------------------------------------------------------------------
(* JavaScript helpers *)

EmptyObject == [k \in {} |-> 0]

IsFinite(x) == x # NaN /\ x # Infinity /\ x # NegInfinity

MathMin(a, b) == IF a = NaN \/ b = NaN THEN NaN ELSE IF a < b THEN a ELSE b

MathMax(a, b) == IF a = NaN \/ b = NaN THEN NaN ELSE IF a > b THEN a ELSE b

\* a + b
Plus(a, b) ==
  IF a = NaN \/ b = NaN THEN NaN
  ELSE IF ~IsFinite(a) THEN (IF ~IsFinite(b) /\ b # a THEN NaN ELSE a)
  ELSE IF ~IsFinite(b) THEN b
  ELSE a + b

\* a - b
Minus(a, b) == Plus(a, IF b = NaN THEN NaN ELSE 0 - b)

\* a !== b
StrictNotEqual(a, b) == a = NaN \/ b = NaN \/ a # b

\* Math.round(num / den): the nearest integer, halves towards +Infinity;
\* 0/0 is NaN.
MathRound(num, den) ==
  IF num = NaN THEN NaN
  ELSE IF den > 0 THEN (2 * num + den) \div (2 * den)
  ELSE IF den < 0 THEN (2 * (0 - num) + (0 - den)) \div (2 * (0 - den))
  ELSE NaN

\* whole pixels in units of 1/m pixel (in whole pixels when m = 0)
Px(pixels, m) == IF m = 0 THEN pixels ELSE pixels * m

\* num / maxValue in units of 1/m pixel, m being maxValue
OverMaxValue(num, m) ==
  IF num = NaN THEN NaN
  ELSE IF m # 0 THEN num
  ELSE IF num = 0 THEN NaN
  ELSE IF num > 0 THEN Infinity
  ELSE NegInfinity

----------------------------------------------------------------------------
(* SliderContext.jsx *)

\* a setter that refuses values below 0
setValueNonNegative(next) == MathMax(0, next)

\* the setter of useState(50): the state after setValue(next)
setValue(next) == next

----------------------------------------------------------------------------
(* Slider.jsx *)

\* Travel with the thumb's width forgotten
TravelNoThumb(sw, width) == sw

\* sliderWidth - width
Travel(sw, width) == sw - width

\* Clamp without the upper limit
ClampNoUpper(candidate, max, m) == MathMax(0, candidate)

\* Clamp without the lower limit
ClampNoLower(candidate, max, m) == MathMin(candidate, Px(max, m))

\* Clamp that wraps to the start when the candidate passes the end
ClampWrap(candidate, max, m) ==
  IF candidate > Px(max, m) THEN 0 ELSE MathMax(0, candidate)

\* Math.max(0, Math.min(event.pageX + offset, max))
Clamp(candidate, max, m) == MathMax(0, MathMin(candidate, Px(max, m)))

\* the candidate measured from the stored left
CandidateFromLeft(pageX, d, m) == Plus(Plus(Px(pageX, m), d.offset), d.left)

\* event.pageX + offset
Candidate(pageX, d, m) == Plus(Px(pageX, m), d.offset)

\* Math.round((next / max) * maxValue), next in units of 1/m pixel
ValueOf(next, max, m) ==
  IF next = NaN THEN NaN
  ELSE IF m = 0 THEN MathRound(0, max)
  ELSE MathRound(next, max)

\* Snap to the value after the current one
SnapNext(max, v) == max * (v + 1)

\* (max * value), which is (max * value) / maxValue in units of
\* 1/maxValue pixel
Snap(max, v) == IF v = NaN THEN NaN ELSE max * v

\* the offset taken from the pointer alone
PointerOffsetNoLeft(l, pageX, m) == Minus(0, Px(pageX, m))

\* dragData.current.left - event.pageX
PointerOffset(l, pageX, m) == Minus(l, Px(pageX, m))

\* the assignment overwriting dragData.current.left as well
WithLeft(d, offset) ==
  [k \in DOMAIN d \cup {"offset"} |->
     IF k \in {"offset", "left"} THEN offset ELSE d[k]]

\* dragData.current.offset = offset
WithOffset(d, offset) ==
  [k \in DOMAIN d \cup {"offset"} |-> IF k = "offset" THEN offset ELSE d[k]]

\* one call of the closure c's drag(event) on the state st
drag(st, c, pageX) ==
  LET d    == st.dragData
      next == Clamp(Candidate(pageX, d, c.maxValue), d.max, c.maxValue)
  IN  IF StrictNotEqual(d.left, next)
      THEN LET v    == ValueOf(next, d.max, c.maxValue)
               snap == OverMaxValue(Snap(d.max, v), c.maxValue)
           IN  [value    |-> setValue(v),
                left     |-> snap,
                dragData |-> [d EXCEPT !.left = snap],
                ran      |-> st.ran + 1,
                updates  |-> st.updates + 1]
      ELSE [st EXCEPT !.ran = st.ran + 1]

\* the dispatch of one mousemove event to the registered listeners
RECURSIVE Dispatch(_, _, _)
Dispatch(listeners, st, pageX) ==
  IF listeners = <<>> THEN st
  ELSE Dispatch(Tail(listeners), drag(st, Head(listeners), pageX), pageX)

\* removeEventListener that only knows the listener registered last
RemoveLastOnly(listeners, c) ==
  IF listeners # <<>> /\ listeners[Len(listeners)] = c
  THEN SubSeq(listeners, 1, Len(listeners) - 1)
  ELSE listeners

\* document.body.removeEventListener("mousemove", drag, false)
RemoveEventListener(listeners, c) ==
  SelectSeq(listeners, LAMBDA l : l # c)

\* document.body.addEventListener(type, listener, ...)
AddEventListener(listeners, c) ==
  IF \E i \in 1 .. Len(listeners) : listeners[i] = c
  THEN listeners
  ELSE Append(listeners, c)

\* drop() calls that remove nothing
DropNone(drops, listeners) == listeners

\* the mouseup dispatch: every drop() removes the drag of its closure
RECURSIVE DropAll(_, _)
DropAll(drops, listeners) ==
  IF drops = <<>> THEN listeners
  ELSE DropAll(Tail(drops), RemoveEventListener(listeners, Head(drops)))

IsRegistered(listeners, id) ==
  \E i \in 1 .. Len(listeners) : listeners[i].id = id

----------------------------------------------------------------------------
(* Initial states *)

InitCommon ==
  /\ left = 0
  /\ dragData = EmptyObject
  /\ mounted = FALSE
  /\ moveListeners = <<>>
  /\ upListeners = <<>>
  /\ closures = 0
  /\ removed = [i \in 1 .. MaxDown |-> 0]
  /\ event = [type |-> "none", pageX |-> 0]
  /\ ran = 0
  /\ updates = 0
  /\ runLast = NoValue
  /\ runPrev = NoValue

\* the application as shipped; the thumb is 2rem wide, the root font size
\* belongs to the browser
Init ==
  /\ maxValue = DefaultMaxValue
  /\ value = DefaultValue
  /\ sliderWidth = SliderStyleWidth
  /\ thumbWidth \in { ThumbSizeRem * f : f \in RootFontSizes }
  /\ InitCommon

\* the same components with the store's two initial numbers and the
\* geometry taken from small ranges
InitGen ==
  /\ maxValue \in 1 .. MaxMaxValue
  /\ value \in 0 .. maxValue
  /\ sliderWidth = GenSliderWidth
  /\ thumbWidth \in { GenSliderWidth - t : t \in -1 .. MaxTravel }
  /\ InitCommon

----------------------------------------------------------------------------
(* Events *)

\* useEffect(initialize, []): runs once, before any pointer event
initialize ==
  /\ ~mounted
  /\ LET max == Travel(sliderWidth, thumbWidth)
         l   == OverMaxValue(Snap(max, value), maxValue)
     IN  /\ dragData' = [left |-> l, max |-> max]
         /\ left' = l
  /\ mounted' = TRUE
  /\ event' = [type |-> "mount", pageX |-> 0]
  /\ ran' = 0
  /\ updates' = 0
  /\ UNCHANGED <<maxValue, value, sliderWidth, thumbWidth, moveListeners,
                 upListeners, closures, removed, runLast, runPrev>>

\* onMouseDown of the thumb
startDrag(pageX) ==
  /\ mounted
  /\ closures < MaxDown
  /\ LET c == [id |-> closures + 1, maxValue |-> maxValue]
         offset == PointerOffset(dragData.left, pageX, maxValue)
     IN  /\ dragData' = WithOffset(dragData, offset)
         /\ moveListeners' = AddEventListener(moveListeners, c)
         /\ upListeners' = AddEventListener(upListeners, c)
  /\ closures' = closures + 1
  /\ event' = [type |-> "down", pageX |-> pageX]
  /\ ran' = 0
  /\ updates' = 0
  /\ runLast' = NoValue
  /\ runPrev' = NoValue
  /\ UNCHANGED <<maxValue, value, left, sliderWidth, thumbWidth, mounted,
                 removed>>

\* a mousemove event on document.body
mousemove(pageX) ==
  /\ mounted
  /\ LET st0 == [value |-> value, left |-> left, dragData |-> dragData,
                 ran |-> 0, updates |-> 0]
         st  == Dispatch(moveListeners, st0, pageX)
         continues == event.type = "move" /\ pageX >= event.pageX
     IN  /\ value' = st.value
         /\ left' = st.left
         /\ dragData' = st.dragData
         /\ ran' = st.ran
         /\ updates' = st.updates
         /\ runLast' = IF st.updates > 0 THEN st.value
                       ELSE IF continues THEN runLast
                       ELSE NoValue
         /\ runPrev' = IF ~continues THEN NoValue
                       ELSE IF st.updates > 0 THEN runLast
                       ELSE runPrev
  /\ event' = [type |-> "move", pageX |-> pageX,
                atDown |-> event.type = "down" /\ event.pageX = pageX]
  /\ UNCHANGED <<maxValue, sliderWidth, thumbWidth, mounted, moveListeners,
                 upListeners, closures, removed>>

\* a mouseup event on document.body
mouseup ==
  /\ mounted
  /\ moveListeners' = DropAll(upListeners, moveListeners)
  /\ upListeners' = <<>>
  /\ removed' = [i \in DOMAIN removed |->
                   IF IsRegistered(moveListeners, i)
                        /\ ~IsRegistered(moveListeners', i)
                   THEN removed[i] + 1 ELSE removed[i]]
  /\ event' = [type |-> "up", pageX |-> 0]
  /\ ran' = Len(upListeners)
  /\ updates' = 0
  /\ runLast' = NoValue
  /\ runPrev' = NoValue
  /\ UNCHANGED <<maxValue, value, left, dragData, sliderWidth, thumbWidth,
                 mounted, closures>>

\* a consumer of the context other than the Slider calls setValue(next)
consumerSetValue(next) ==
  /\ value' = setValue(next)
  /\ event' = [type |-> "setValue", next |-> next]
  /\ ran' = 0
  /\ updates' = 0
  /\ runLast' = NoValue
  /\ runPrev' = NoValue
  /\ UNCHANGED <<maxValue, left, dragData, sliderWidth, thumbWidth, mounted,
                 moveListeners, upListeners, closures, removed>>

Next ==
  \/ initialize
  \/ \E pageX \in PageXs(sliderWidth) : startDrag(pageX)
  \/ \E pageX \in PageXs(sliderWidth) : mousemove(pageX)
  \/ mouseup

Spec == Init /\ [][Next]_vars

SpecGen == InitGen /\ [][Next]_vars

\* the provider with useState(0) for maxValue, the value either kept at
\* its default or brought into [0, maxValue]
InitZero ==
  /\ maxValue = 0
  /\ value \in {0, DefaultValue}
  /\ sliderWidth = SliderStyleWidth
  /\ thumbWidth \in { ThumbSizeRem * f : f \in RootFontSizes }
  /\ InitCommon

SpecZero == InitZero /\ [][Next]_vars

\* the generic store under a slider of one geometry
InitStore ==
  /\ maxValue \in 1 .. MaxMaxValue
  /\ value \in 0 .. maxValue
  /\ sliderWidth = GenSliderWidth
  /\ thumbWidth = GenSliderWidth - MaxTravel
  /\ InitCommon

\* the store with a second writer
NextStore ==
  \/ Next
  \/ \E next \in (0 - MaxExcess) .. (maxValue + MaxExcess) :
       consumerSetValue(next)

SpecStore == InitStore /\ [][NextStore]_vars

----------------------------------------------------------------------------
(* Shorthands *)

max == dragData.max

\* the last event was a mousemove that reached at least one drag()
moved == event.type = "move" /\ ran > 0

\* event.pageX + offset of the last mousemove
lastCandidate == Candidate(event.pageX, dragData, maxValue)

\* Idle: no pointer-down since the last pointer-up (no release listener
\* is waiting)
idle == upListeners = <<>>

----------------------------------------------------------------------------
(* Claims *)

\* C1: with maxValue > 0 and maxTravel = trackWidth - thumbWidth > 0, every
\* state reached by mount, pointer-down, pointer-move and pointer-up events
\* has 0 <= value <= maxValue.
ValueInRange ==
  (maxValue > 0 /\ Travel(sliderWidth, thumbWidth) > 0)
    => (0 <= value /\ value <= maxValue)

\* a drag past the end of the track wrote the largest value
ValueInRangeWitness ==
  /\ moved /\ updates > 0
  /\ max > 0
  /\ lastCandidate > Px(max, maxValue)
  /\ value = maxValue

\* C2 (as claimed): at most one move listener is ever registered on the
\* document body, so one mouse movement calls drag(), and sets state, at
\* most once.
OneMoveListener ==
  /\ Len(moveListeners) <= 1
  /\ (event.type = "move" => ran <= 1 /\ updates <= 1)

\* C3 (as claimed): during a drag with one move listener, a move event
\* with the same pageX as the move event before it sets no state.
SameMoveSetsNothing ==
  [][(event.type = "move" /\ event'.type = "move"
        /\ event'.pageX = event.pageX
        /\ Len(moveListeners) = 1)
      => updates' = 0]_vars

\* C4: after a pointer-up no move listener (and no release listener) is
\* left on the document body, and every move listener registered so far has
\* been removed exactly once; no listener is ever removed twice.
IdleAfterUp ==
  /\ \A i \in DOMAIN removed : removed[i] <= 1
  /\ event.type = "up" =>
       /\ moveListeners = <<>>
       /\ upListeners = <<>>
       /\ \A i \in 1 .. closures : removed[i] = 1

\* a pointer-up that ended several pointer-downs at once
IdleAfterUpWitness ==
  /\ event.type = "up"
  /\ ran >= 2
  /\ moveListeners = <<>>

\* C5: during a drag with maxTravel > 0 and maxValue > 0, after a move
\* whose candidate offset is below 0 the value and the thumb offset are 0,
\* and after a move whose candidate offset is maxTravel or above the value
\* is maxValue and the thumb offset is maxTravel.
BoundaryClamp ==
  (moved /\ max > 0 /\ maxValue > 0) =>
    /\ lastCandidate < 0 => (value = 0 /\ left = 0)
    /\ lastCandidate >= Px(max, maxValue)
         => (value = maxValue /\ left = Px(max, maxValue))

\* the shipped slider dragged from 144 to below 0: value 0, offset 0
BoundaryClampWitness ==
  /\ moved /\ updates > 0
  /\ max = 288 /\ maxValue = 100
  /\ lastCandidate < 0
  /\ value = 0 /\ left = 0

\* C6 (as claimed): after initialization the thumb offset is within
\* [0, maxTravel] and equals maxTravel * value / maxValue for the store's
\* integer value.
ThumbInSync ==
  mounted =>
    /\ 0 <= left /\ left <= Px(max, maxValue)
    /\ left = max * value
    /\ value \in Int

\* C7: within one drag gesture, along move events with non-decreasing
\* pageX the values drag() writes to the store never decrease.
MonotoneValues ==
  runPrev # NoValue => runPrev <= runLast

\* two writes in one run of increasing moves, the second one larger
MonotoneValuesWitness ==
  /\ moved /\ updates > 0
  /\ runPrev # NoValue
  /\ runPrev < runLast
  /\ value = runLast

\* C8 (as claimed): with the thumb wider than the track maxTravel is not
\* negative and the thumb offset is 0 after initialization and after every
\* pointer event.
ZeroTravel ==
  (mounted /\ sliderWidth - thumbWidth < 0) =>
    (max >= 0 /\ left = 0 /\ dragData.left = 0)

\* C9: for maxValue > 0 and maxTravel > 0, initialization with a value in
\* [0, maxValue] puts the thumb at maxTravel * value / maxValue, and
\* round((left / maxTravel) * maxValue) of that offset is the value again.
RoundTrip ==
  (event.type = "mount" /\ maxValue > 0 /\ max > 0
     /\ 0 <= value /\ value <= maxValue)
    => (left = max * value /\ ValueOf(left, max, maxValue) = value)

\* an initial value whose offset is not a whole number of pixels
RoundTripWitness ==
  /\ event.type = "mount"
  /\ max > 0
  /\ 0 < value /\ value < maxValue
  /\ left % maxValue # 0
  /\ ValueOf(left, max, maxValue) = value

\* C10: initialization sets max to trackWidth - thumbWidth and both
\* dragData.left and the displayed offset to max * value / maxValue, and
\* leaves the store alone (track 320, thumb 32, value 50 of 100: max 288,
\* offset 144).
InitializeOnMount ==
  event.type = "mount" =>
    /\ max = sliderWidth - thumbWidth
    /\ dragData.left = max * value
    /\ left = dragData.left
    /\ value = DefaultValue /\ maxValue = DefaultMaxValue
    /\ (sliderWidth = 320 /\ thumbWidth = 32)
         => (max = 288 /\ left = Px(144, maxValue))

\* the shipped geometry just after mount
InitializeOnMountWitness ==
  /\ event.type = "mount"
  /\ sliderWidth = 320 /\ thumbWidth = 32
  /\ max = 288
  /\ left = Px(144, 100)
  /\ value = 50

\* C11: setValue(next) replaces the store's value by next for every next,
\* also below 0 and above maxValue, and leaves maxValue alone.
SetValueReplaces ==
  [][event'.type = "setValue"
       => (value' = event'.next /\ maxValue' = maxValue)]_vars

\* a value above maxValue stored as it was given
SetValueReplacesWitness ==
  /\ event.type = "setValue"
  /\ event.next > maxValue
  /\ value = event.next

IdleMoveChangesNothing ==
  [][(event'.type = "move" /\ idle)
      => (value' = value /\ left' = left /\ dragData' = dragData)]_vars

\* a move after the release of a drag that had changed the value
IdleMoveChangesNothingWitness ==
  /\ event.type = "move"
  /\ idle
  /\ ran = 0
  /\ removed[1] = 1
  /\ value # DefaultValue

\* C15: a pointer-down changes neither the value nor the thumb offset nor
\* the stored left and max (it records the offset and registers
\* listeners); a pointer-up changes neither the value nor the thumb offset
\* nor the drag data.
DownUpChangeNothing ==
  [][/\ event'.type = "down"
          => /\ value' = value /\ left' = left
             /\ dragData'.left = dragData.left
             /\ dragData'.max = dragData.max
     /\ event'.type = "up"
          => (value' = value /\ left' = left /\ dragData' = dragData)]_vars

\* the release of a drag that had changed the value: the value is kept
DownUpChangeNothingWitness ==
  /\ event.type = "up"
  /\ ran >= 1
  /\ value # DefaultValue
  /\ left = max * value
  /\ dragData.left = left

\* C16: after a move event during a drag, the value, the thumb offset and
\* the drag data are those that one drag() call alone would have left,
\* however many move listeners are registered.
ListenerCountIrrelevant ==
  [][(event'.type = "move" /\ moveListeners # <<>>)
      => LET st0 == [value |-> value, left |-> left, dragData |-> dragData,
                     ran |-> 0, updates |-> 0]
             one == drag(st0, Head(moveListeners), event'.pageX)
         IN  /\ value' = one.value
             /\ left' = one.left
             /\ dragData' = one.dragData]_vars

\* a move that two listeners handled and that set state
ListenerCountIrrelevantWitness ==
  /\ moved
  /\ ran >= 2
  /\ Len(moveListeners) >= 2
  /\ updates >= 1

====
